---------------------------- MODULE Spec2Model ----------------------------
(***************************************************************************)
(* Model of the intranet-analytics ETL pipeline:                           *)
(*   scripts/ingest_data.py         ingest_data, create_date_dimension,     *)
(*                                  validate_primary_keys, export_to_parquet*)
(*   scripts/create_aggregations.py create_aggregations                     *)
(*                                                                         *)
(* Tables are bags (multisets) of rows; a row is a record of its columns.  *)
(* ingest_data is modelled statement by statement (every con.execute that  *)
(* changes the database is one step, DuckDB auto-commits each statement),  *)
(* so the state a failed run leaves behind is a state of the model.        *)
(* SQL NULL and its three-valued logic are modelled explicitly.            *)
(***************************************************************************)
EXTENDS Integers, Sequences, FiniteSets, Bags, TLC

VARIABLES
    dbFile,                 \* the base database file exists on disk
    tables,                 \* names of the tables of the base database
    fact,                   \* rows of table fact (bag)
    page_inventory,         \* rows of table page_inventory (bag)
    temps,                  \* names of the connection's TEMP tables
    fact_staging,           \* rows of TEMP table fact_staging (bag)
    page_inventory_staging, \* rows of TEMP table page_inventory_staging (bag)
    pc,                     \* position of the ingest_data run
    full_refresh,           \* argument of the current/last ingest_data run
    export_parquet,         \* argument of the current/last ingest_data run
    fact_csv,               \* the file at fact_csv_path: [exists, rows]
    inventory_csv,          \* the file at page_inventory_csv_path: [exists, rows]
    all_valid,              \* what validate_primary_keys returned in this run
    parquet,                \* files written by export_to_parquet in this run
    pre,                    \* the base tables as they were when the run started
    employee_contact,       \* rows of the optional table employee_contact (bag)
    aggFile,                \* the aggregate database file exists on disk
    agg,                    \* the aggregate database: table name -> rows
    agg_result,             \* how the last create_aggregations run ended
    agg_parquet,            \* files in the aggregate Parquet directory
    aborted,                \* history: the incremental run that was interrupted
                            \* and not yet re-run to completion
    merge_log,              \* history: the fact CSVs merged so far, as staged
    date_range              \* the calendar rows generated so far

ingestVars == <<dbFile, tables, fact, page_inventory, temps, fact_staging,
                page_inventory_staging, pc, full_refresh, export_parquet,
                fact_csv, inventory_csv, all_valid, parquet, pre>>

aggVars == <<employee_contact, aggFile, agg, agg_result, agg_parquet>>

historyVars == <<aborted, merge_log, date_range>>

vars == <<ingestVars, aggVars, historyVars>>

-----------------------------------------------------------------------------
(* Bounds of the model *)

\* most rows of one CSV file
MaxCsvRows == 2
\* most rows of fact, of page_inventory and of employee_contact in a source
\* database handed to create_aggregations
MaxAggFactRows == 2
MaxAggPageRows == 2
MaxEmployeeRows == 1
\* most rows of each table of a source database, where create_aggregations
\* runs on one source database after another
MaxRebuildRows == 1
\* most fact merges of a sequence of incremental runs whose CSVs are logged
MaxMerges == 3
\* a run is started only while fact holds at most this many rows
MaxFactRows == 3
\* a run is started only while page_inventory holds at most this many rows
MaxPageRows == 3

-----------------------------------------------------------------------------
(* SQL values *)

\* SQL NULL (Python None), per column type
Null == [bigint |-> 0 - 1, varchar |-> "<NULL>"]

\* SQL three-valued comparison and connectives: "true", "false", "unknown"
SqlGe(a, b) ==
    IF a = Null.bigint \/ b = Null.bigint THEN "unknown"
    ELSE IF a >= b THEN "true" ELSE "false"

SqlLe(a, b) ==
    IF a = Null.bigint \/ b = Null.bigint THEN "unknown"
    ELSE IF a <= b THEN "true" ELSE "false"

SqlAnd(x, y) ==
    IF x = "false" \/ y = "false" THEN "false"
    ELSE IF x = "unknown" \/ y = "unknown" THEN "unknown"
    ELSE "true"

SqlNeStr(a, b) ==
    IF a = Null.varchar \/ b = Null.varchar THEN "unknown"
    ELSE IF a # b THEN "true" ELSE "false"

\* x IN (SELECT ...): true on a match, unknown when x or a listed value is
\* NULL and nothing matches, false otherwise
SqlIn(x, S) ==
    IF x # Null.varchar /\ x \in (S \ {Null.varchar}) THEN "true"
    ELSE IF S = {} THEN "false"
    ELSE IF x = Null.varchar \/ Null.varchar \in S THEN "unknown"
    ELSE "false"

-----------------------------------------------------------------------------
(* Bags *)

\* the rows of B that are in S, as often as B holds them (S: the rows for
\* which a WHERE clause is true)
Where(B, S) == [x \in S \cap DOMAIN B |-> B[x]]

SeqToBag(s) ==
    [x \in {s[i] : i \in DOMAIN s} |-> Cardinality({i \in DOMAIN s : s[i] = x})]

\* every bag of at most n elements of S
BagsUpTo(S, n) == {SeqToBag(s) : s \in UNION {[1..k -> S] : k \in 0..n}}

\* COUNT(*) of the rows of B that are in S
CountWhere(B, S) == BagCardinality(Where(B, S))

-----------------------------------------------------------------------------
(* CSV files and the SELECT lists that load them *)

\* a row of the fact CSV, under the column names of the file
FactCsvRow(d, ref, p, v, c, cm, lk) ==
    [fact_visitdatekey |-> d, fact_referrerapplicationid |-> ref,
     fact_marketingPageId |-> p, fact_views |-> v,
     fact_viewingcontactid |-> c, fact_flag |-> "f", fact_visits |-> 1,
     fact_durationsum |-> 10, fact_durationavg |-> 10,
     fact_comments |-> cm, fact_marketingPageIdliked |-> lk]

\* a row of the page-inventory CSV (the columns the pipeline later reads;
\* the remaining columns are copied the same way)
PageCsvRow(id, name, site) ==
    [marketingpageid |-> id, pagename |-> name, websitename |-> site,
     theme |-> "t", topic |-> "o", template |-> "m", contentType |-> "n"]

\* SELECT fact_visitdatekey AS visitdatekey, ... FROM read_csv(fact_csv_path)
SelectFact(r) ==
    [visitdatekey |-> r.fact_visitdatekey,
     referrerapplicationid |-> r.fact_referrerapplicationid,
     marketingpageid |-> r.fact_marketingPageId,
     views |-> r.fact_views,
     viewingcontactid |-> r.fact_viewingcontactid,
     flag |-> r.fact_flag,
     visits |-> r.fact_visits,
     durationsum |-> r.fact_durationsum,
     durationavg |-> r.fact_durationavg,
     comments |-> r.fact_comments,
     marketingpageidliked |-> r.fact_marketingPageIdliked]

ReadFactCsv(file) == BagOfAll(SelectFact, file.rows)

\* SELECT websitename, ..., contentType AS contenttype, ... FROM read_csv(...)
SelectPage(r) ==
    [marketingpageid |-> r.marketingpageid, pagename |-> r.pagename,
     websitename |-> r.websitename, theme |-> r.theme, topic |-> r.topic,
     template |-> r.template, contenttype |-> r.contentType]

\* variant: the load keeps every row
NotUnknownKeepAll(r) == TRUE

\* WHERE marketingpageid != 'Unknown'
NotUnknown(r) == SqlNeStr(r.marketingpageid, "Unknown") = "true"

ReadPageCsv(file) ==
    LET all == BagOfAll(SelectPage, file.rows)
    IN  Where(all, {r \in DOMAIN all : NotUnknown(r)})

\* a file that is not there
Missing == [exists |-> FALSE, rows |-> EmptyBag]

File(rows) == [exists |-> TRUE, rows |-> rows]

-----------------------------------------------------------------------------
(* Incremental fact merge: date range, its formatting into the DELETE *)

DateKeys(B) == {r.visitdatekey : r \in DOMAIN B} \ {Null.bigint}

\* SELECT MIN(visitdatekey), MAX(visitdatekey) FROM fact_staging: the
\* aggregates skip NULLs and are NULL (None) over no value
MinDate(B) ==
    IF DateKeys(B) = {} THEN Null.bigint
    ELSE CHOOSE m \in DateKeys(B) : \A x \in DateKeys(B) : m <= x

MaxDate(B) ==
    IF DateKeys(B) = {} THEN Null.bigint
    ELSE CHOOSE m \in DateKeys(B) : \A x \in DateKeys(B) : m >= x

\* variant: None reaches the statement as the SQL literal NULL
PyFormatAsNull(v) == [kind |-> "literal", name |-> "", val |-> v]

\* f"{min_date}": an integer prints as a numeric literal, None prints as the
\* word None, which SQL reads as a column reference
PyFormat(v) ==
    IF v = Null.bigint THEN [kind |-> "column", name |-> "None", val |-> 0]
    ELSE [kind |-> "literal", name |-> "", val |-> v]

\* the binder rejects a statement that names a column the table lacks
\* (fact has no column None)
BinderError(lo, hi) == lo.kind = "column" \/ hi.kind = "column"

\* WHERE visitdatekey >= {min_date} AND visitdatekey <= {max_date}
InWindow(r, lo, hi) ==
    SqlAnd(SqlGe(r.visitdatekey, lo.val), SqlLe(r.visitdatekey, hi.val)) = "true"

\* variant: the window excludes its two end dates
DeleteOverlapExclusive(B, lo, hi) ==
    Where(B, {r \in DOMAIN B :
                 ~(r.visitdatekey # Null.bigint /\ r.visitdatekey > lo.val
                   /\ r.visitdatekey < hi.val)})

\* DELETE FROM fact WHERE ...: the rows that stay
DeleteOverlap(B, lo, hi) ==
    Where(B, {r \in DOMAIN B : ~InWindow(r, lo, hi)})

\* DELETE FROM page_inventory WHERE marketingpageid IN (SELECT marketingpageid
\* FROM page_inventory_staging): the rows that stay
PageIdsOf(B) == {r.marketingpageid : r \in DOMAIN B}

\* variant: nothing is deleted before the insert
DeleteResuppliedNothing(B, S) == B

DeleteResupplied(B, S) ==
    Where(B, {r \in DOMAIN B : SqlIn(r.marketingpageid, PageIdsOf(S)) # "true"})

-----------------------------------------------------------------------------
(* validate_primary_keys *)

\* GROUP BY marketingpageid HAVING COUNT(*) > 1
inventory_dupes(P) ==
    {id \in PageIdsOf(P) :
        CountWhere(P, {r \in DOMAIN P : r.marketingpageid = id}) > 1}

FactKey(r) ==
    <<r.visitdatekey, r.marketingpageid, r.viewingcontactid,
      r.referrerapplicationid>>

\* GROUP BY visitdatekey, marketingpageid, viewingcontactid,
\* referrerapplicationid HAVING COUNT(*) > 1
fact_dupes(F) ==
    {k \in {FactKey(r) : r \in DOMAIN F} :
        CountWhere(F, {r \in DOMAIN F : FactKey(r) = k}) > 1}

\* fact LEFT JOIN page_inventory ... WHERE p.marketingpageid IS NULL
orphaned(F, P) ==
    Where(F, {r \in DOMAIN F :
                 r.marketingpageid = Null.varchar
                 \/ r.marketingpageid \notin PageIdsOf(P)})

\* variant: orphaned fact rows fail the validation too
validate_primary_keysCountingOrphans(F, P) ==
    inventory_dupes(P) = {} /\ fact_dupes(F) = {} /\ orphaned(F, P) = EmptyBag

validate_primary_keys(F, P) == inventory_dupes(P) = {} /\ fact_dupes(F) = {}

ParquetFiles == {"fact.parquet", "page_inventory.parquet", "dim_date.parquet"}

-----------------------------------------------------------------------------
(* ingest_data, statement by statement *)

Finished == pc \in {"done", "failed"}

\* an exception leaves the try block: finally closes the connection, which
\* drops its TEMP tables; nothing is rolled back
Raise ==
    /\ pc' = "failed"
    /\ temps' = {}
    /\ fact_staging' = EmptyBag
    /\ page_inventory_staging' = EmptyBag

KeepStaging == UNCHANGED <<temps, fact_staging, page_inventory_staging>>

KeepArgs == UNCHANGED <<full_refresh, export_parquet, fact_csv, inventory_csv>>

KeepBase == UNCHANGED <<dbFile, tables, fact, page_inventory>>

\* ingest_data opens the base database only
KeepAgg == UNCHANGED aggVars

KeepHistory == UNCHANGED historyVars

\* no interrupted run is waiting for its re-run
NoAbort ==
    [interrupted |-> FALSE,
     pre |-> [tables |-> {}, fact |-> EmptyBag, page_inventory |-> EmptyBag],
     fact_csv |-> Missing, inventory_csv |-> Missing]

\* the run that starts is the incremental re-run of the interrupted run,
\* with the same two CSV files
Resumes(fcsv, icsv, fr) ==
    /\ aborted.interrupted
    /\ ~fr
    /\ fcsv = aborted.fact_csv
    /\ icsv = aborted.inventory_csv

\* the log of merged fact CSVs, where none is kept
NotRecorded == [on |-> FALSE, csvs |-> <<>>]

Recorded(log, S) == IF log.on THEN [log EXCEPT !.csvs = Append(@, S)] ELSE log

\* ingest_data(fact_csv_path, page_inventory_csv_path, db_path,
\* export_parquet, full_refresh) up to duckdb.connect, which creates the
\* database file when it does not exist
ingest_data(fcsv, icsv, ex, fr) ==
    /\ pc = "idle"
    /\ BagCardinality(fact) <= MaxFactRows
    /\ BagCardinality(page_inventory) <= MaxPageRows
    /\ dbFile' = TRUE
    /\ full_refresh' = fr
    /\ export_parquet' = ex
    /\ fact_csv' = fcsv
    /\ inventory_csv' = icsv
    /\ all_valid' = "none"
    /\ pre' = [tables |-> tables, fact |-> fact, page_inventory |-> page_inventory]
    /\ pc' = IF fr THEN "fact_replace" ELSE "fact_create"
    /\ UNCHANGED <<tables, fact, page_inventory, parquet>>
    /\ KeepStaging
    /\ KeepAgg
    /\ aborted' = IF Resumes(fcsv, icsv, fr) THEN aborted ELSE NoAbort
    /\ UNCHANGED <<merge_log, date_range>>

\* CREATE OR REPLACE TABLE fact AS SELECT ... FROM read_csv(fact_csv_path)
FactReplace ==
    /\ pc = "fact_replace"
    /\ IF fact_csv.exists
       THEN /\ fact' = ReadFactCsv(fact_csv)
            /\ tables' = tables \cup {"fact"}
            /\ pc' = "inventory_replace"
            /\ KeepStaging
       ELSE /\ Raise
            /\ UNCHANGED <<fact, tables>>
    /\ UNCHANGED <<dbFile, page_inventory, all_valid, parquet, pre>>
    /\ KeepArgs
    /\ KeepAgg
    /\ KeepHistory

\* CREATE TABLE IF NOT EXISTS fact (...)
FactCreate ==
    /\ pc = "fact_create"
    /\ tables' = tables \cup {"fact"}
    /\ pc' = "fact_staging"
    /\ UNCHANGED <<dbFile, fact, page_inventory, all_valid, parquet, pre>>
    /\ KeepStaging
    /\ KeepArgs
    /\ KeepAgg
    /\ KeepHistory

\* CREATE OR REPLACE TEMP TABLE fact_staging AS SELECT ... FROM read_csv(...)
FactStaging ==
    /\ pc = "fact_staging"
    /\ IF fact_csv.exists
       THEN /\ fact_staging' = ReadFactCsv(fact_csv)
            /\ temps' = temps \cup {"fact_staging"}
            /\ pc' = "fact_delete"
            /\ UNCHANGED page_inventory_staging
       ELSE Raise
    /\ UNCHANGED <<all_valid, parquet, pre>>
    /\ KeepBase
    /\ KeepArgs
    /\ KeepAgg
    /\ KeepHistory

\* date_range = SELECT MIN, MAX FROM fact_staging; then
\* DELETE FROM fact WHERE visitdatekey >= {min_date} AND visitdatekey <= {max_date}
FactDelete ==
    /\ pc = "fact_delete"
    /\ LET min_date == PyFormat(MinDate(fact_staging))
           max_date == PyFormat(MaxDate(fact_staging))
       IN  IF BinderError(min_date, max_date)
           THEN /\ Raise
                /\ UNCHANGED fact
           ELSE /\ fact' = DeleteOverlap(fact, min_date, max_date)
                /\ pc' = "fact_insert"
                /\ KeepStaging
    /\ UNCHANGED <<dbFile, tables, page_inventory, all_valid, parquet, pre>>
    /\ KeepArgs
    /\ KeepAgg
    /\ KeepHistory

\* INSERT INTO fact SELECT * FROM fact_staging
FactInsert ==
    /\ pc = "fact_insert"
    /\ fact' = fact (+) fact_staging
    /\ pc' = "fact_drop"
    /\ UNCHANGED <<dbFile, tables, page_inventory, all_valid, parquet, pre>>
    /\ KeepStaging
    /\ KeepArgs
    /\ KeepAgg
    /\ merge_log' = Recorded(merge_log, fact_staging)
    /\ UNCHANGED <<aborted, date_range>>

\* DROP TABLE fact_staging
FactDrop ==
    /\ pc = "fact_drop"
    /\ temps' = temps \ {"fact_staging"}
    /\ fact_staging' = EmptyBag
    /\ pc' = "inventory_create"
    /\ UNCHANGED <<page_inventory_staging, all_valid, parquet, pre>>
    /\ KeepBase
    /\ KeepArgs
    /\ KeepAgg
    /\ KeepHistory

\* CREATE OR REPLACE TABLE page_inventory AS SELECT ... FROM read_csv(...)
\* WHERE marketingpageid != 'Unknown'
InventoryReplace ==
    /\ pc = "inventory_replace"
    /\ IF inventory_csv.exists
       THEN /\ page_inventory' = ReadPageCsv(inventory_csv)
            /\ tables' = tables \cup {"page_inventory"}
            /\ pc' = "dim_date"
            /\ KeepStaging
       ELSE /\ Raise
            /\ UNCHANGED <<page_inventory, tables>>
    /\ UNCHANGED <<dbFile, fact, all_valid, parquet, pre>>
    /\ KeepArgs
    /\ KeepAgg
    /\ KeepHistory

\* CREATE TABLE IF NOT EXISTS page_inventory (...)
InventoryCreate ==
    /\ pc = "inventory_create"
    /\ tables' = tables \cup {"page_inventory"}
    /\ pc' = "inventory_staging"
    /\ UNCHANGED <<dbFile, fact, page_inventory, all_valid, parquet, pre>>
    /\ KeepStaging
    /\ KeepArgs
    /\ KeepAgg
    /\ KeepHistory

\* CREATE OR REPLACE TEMP TABLE page_inventory_staging AS SELECT ...
\* FROM read_csv(...) WHERE marketingpageid != 'Unknown'
InventoryStaging ==
    /\ pc = "inventory_staging"
    /\ IF inventory_csv.exists
       THEN /\ page_inventory_staging' = ReadPageCsv(inventory_csv)
            /\ temps' = temps \cup {"page_inventory_staging"}
            /\ pc' = "inventory_delete"
            /\ UNCHANGED fact_staging
       ELSE Raise
    /\ UNCHANGED <<all_valid, parquet, pre>>
    /\ KeepBase
    /\ KeepArgs
    /\ KeepAgg
    /\ KeepHistory

\* DELETE FROM page_inventory WHERE marketingpageid IN (SELECT ... staging)
InventoryDelete ==
    /\ pc = "inventory_delete"
    /\ page_inventory' = DeleteResupplied(page_inventory, page_inventory_staging)
    /\ pc' = "inventory_insert"
    /\ UNCHANGED <<dbFile, tables, fact, all_valid, parquet, pre>>
    /\ KeepStaging
    /\ KeepArgs
    /\ KeepAgg
    /\ KeepHistory

\* INSERT INTO page_inventory SELECT * FROM page_inventory_staging
InventoryInsert ==
    /\ pc = "inventory_insert"
    /\ page_inventory' = page_inventory (+) page_inventory_staging
    /\ pc' = "inventory_drop"
    /\ UNCHANGED <<dbFile, tables, fact, all_valid, parquet, pre>>
    /\ KeepStaging
    /\ KeepArgs
    /\ KeepAgg
    /\ KeepHistory

\* DROP TABLE page_inventory_staging
InventoryDrop ==
    /\ pc = "inventory_drop"
    /\ temps' = temps \ {"page_inventory_staging"}
    /\ page_inventory_staging' = EmptyBag
    /\ pc' = "dim_date"
    /\ UNCHANGED <<fact_staging, all_valid, parquet, pre>>
    /\ KeepBase
    /\ KeepArgs
    /\ KeepAgg
    /\ KeepHistory

\* create_date_dimension(con): CREATE OR REPLACE TABLE dim_date AS ...
create_date_dimension ==
    /\ pc = "dim_date"
    /\ tables' = tables \cup {"dim_date"}
    /\ pc' = "validate"
    /\ UNCHANGED <<dbFile, fact, page_inventory, all_valid, parquet, pre>>
    /\ KeepStaging
    /\ KeepArgs
    /\ KeepAgg
    /\ KeepHistory

\* variant: a failed validation aborts the run
AfterValidateBlocking(valid) ==
    IF ~valid THEN "failed" ELSE IF export_parquet THEN "export" ELSE "done"

\* what ingest_data does with the value validate_primary_keys returns
AfterValidate(valid) == IF export_parquet THEN "export" ELSE "done"

\* validate_primary_keys(con); its result is dropped by the caller
Validate ==
    /\ pc = "validate"
    /\ all_valid' = validate_primary_keys(fact, page_inventory)
    /\ pc' = AfterValidate(all_valid')
    /\ UNCHANGED <<parquet, pre>>
    /\ KeepBase
    /\ KeepStaging
    /\ KeepArgs
    /\ KeepAgg
    /\ KeepHistory

\* export_to_parquet(con): COPY fact / page_inventory / dim_date TO ...
export_to_parquet ==
    /\ pc = "export"
    /\ parquet' = parquet \cup ParquetFiles
    /\ pc' = "done"
    /\ UNCHANGED <<all_valid, pre>>
    /\ KeepBase
    /\ KeepStaging
    /\ KeepArgs
    /\ KeepAgg
    /\ KeepHistory

NoRun ==
    [full_refresh |-> FALSE, export_parquet |-> FALSE, fact_csv |-> Missing,
     inventory_csv |-> Missing, all_valid |-> "none",
     pre |-> [tables |-> {}, fact |-> EmptyBag, page_inventory |-> EmptyBag]]

\* ingest_data returns or its exception ends the process: the call's
\* arguments and locals are gone, the database and the exported files stay
Return ==
    /\ Finished
    /\ pc' = "idle"
    /\ full_refresh' = NoRun.full_refresh
    /\ export_parquet' = NoRun.export_parquet
    /\ fact_csv' = NoRun.fact_csv
    /\ inventory_csv' = NoRun.inventory_csv
    /\ all_valid' = NoRun.all_valid
    /\ pre' = NoRun.pre
    /\ UNCHANGED parquet
    /\ KeepBase
    /\ KeepStaging
    /\ KeepAgg
    /\ aborted' = IF pc = "done" THEN NoAbort ELSE aborted
    /\ UNCHANGED <<merge_log, date_range>>

\* the process running an incremental ingest_data ends between two
\* statements (killed, or an error of the database): finally closes the
\* connection, every statement executed so far stays committed
Abort ==
    /\ pc \notin {"idle", "done", "failed"}
    /\ ~full_refresh
    /\ ~aborted.interrupted
    /\ Raise
    /\ aborted' = [interrupted |-> TRUE, pre |-> pre, fact_csv |-> fact_csv,
                   inventory_csv |-> inventory_csv]
    /\ UNCHANGED <<all_valid, parquet, pre, merge_log, date_range>>
    /\ KeepBase
    /\ KeepArgs
    /\ KeepAgg

Steps ==
    \/ Return
    \/ FactReplace
    \/ FactCreate
    \/ FactStaging
    \/ FactDelete
    \/ FactInsert
    \/ FactDrop
    \/ InventoryReplace
    \/ InventoryCreate
    \/ InventoryStaging
    \/ InventoryDelete
    \/ InventoryInsert
    \/ InventoryDrop
    \/ create_date_dimension
    \/ Validate
    \/ export_to_parquet

-----------------------------------------------------------------------------
(* The date dimension, as far as the rollups read it *)

DimFirstYear == 2022
DimLastYear == 2040

YearOf(k) == k \div 10000

MonthOf(k) == (k \div 100) % 100

DayOf(k) == k % 100

IsLeapYear(y) == (y % 4 = 0 /\ y % 100 # 0) \/ y % 400 = 0

DaysInMonth(y, m) ==
    IF m = 2 THEN (IF IsLeapYear(y) THEN 29 ELSE 28)
    ELSE IF m \in {4, 6, 9, 11} THEN 30 ELSE 31

\* generate_series(DATE '2022-01-01', DATE '2040-12-31', INTERVAL 1 DAY)
SeriesStart == [y |-> DimFirstYear, m |-> 1, d |-> 1]

SeriesEnd == [y |-> DimLastYear, m |-> 12, d |-> 31]

\* date + INTERVAL 1 DAY
AddDay(t) ==
    IF t.d < DaysInMonth(t.y, t.m) THEN [t EXCEPT !.d = @ + 1]
    ELSE IF t.m < 12 THEN [t EXCEPT !.m = @ + 1, !.d = 1]
    ELSE [y |-> t.y + 1, m |-> 1, d |-> 1]

\* a DATE is stored as its number of days since 1970-01-01
EpochDays(t) ==
    LET y == IF t.m <= 2 THEN t.y - 1 ELSE t.y
        era == y \div 400
        yoe == y - era * 400
        doy == (153 * (IF t.m > 2 THEN t.m - 3 ELSE t.m + 9) + 2) \div 5 + t.d - 1
        doe == yoe * 365 + yoe \div 4 - yoe \div 100 + doy
    IN  era * 146097 + doe - 719468

\* ISODOW(date): 1 = Monday .. 7 = Sunday (1970-01-01 was a Thursday)
ISODOW(t) == ((EpochDays(t) + 3) % 7) + 1

\* LAST_DAY(date)
LAST_DAY(t) == [t EXCEPT !.d = DaysInMonth(t.y, t.m)]

\* variant: the weekend taken from a weekday numbered from Sunday = 0
is_weekendSundayZero(t) == (ISODOW(t) % 7) \in {6, 7}

\* CASE WHEN ISODOW(date) IN (6, 7) THEN TRUE ELSE FALSE END
is_weekend(t) == ISODOW(t) \in {6, 7}

\* the SELECT list of dim_date for one date of date_range (the columns
\* that are names or labels are left out)
DimRow(t) ==
    [datekey |-> t.y * 10000 + t.m * 100 + t.d,
     date |-> t,
     year |-> t.y,
     quarter |-> ((t.m - 1) \div 3) + 1,
     month |-> t.m,
     day_of_month |-> t.d,
     day_of_week |-> ISODOW(t),
     is_weekend |-> is_weekend(t),
     is_month_start |-> t.d = 1,
     is_month_end |-> t = LAST_DAY(t),
     is_quarter_start |-> t.m \in {1, 4, 7, 10} /\ t.d = 1,
     is_quarter_end |-> t.m \in {3, 6, 9, 12} /\ t = LAST_DAY(t),
     is_year_start |-> t.m = 1 /\ t.d = 1,
     is_year_end |-> t.m = 12 /\ t.d = 31]

\* generate_series has produced no date yet
NoSeries ==
    [n |-> 0, date |-> [y |-> 0, m |-> 0, d |-> 0],
     year_starts |-> EmptyBag, year_ends |-> EmptyBag]

\* CREATE OR REPLACE TABLE dim_date AS WITH date_range AS (...) SELECT ...,
\* row by row: the next date of the series and its row; the statement reads
\* no table. n counts the rows; year_starts and year_ends are the bags of
\* the years of the rows flagged is_year_start and is_year_end.
date_range_row ==
    LET t == IF date_range.n = 0 THEN SeriesStart ELSE AddDay(date_range.date)
        r == DimRow(t)
    IN  /\ EpochDays(t) <= EpochDays(SeriesEnd)
        /\ date_range' =
               [n |-> date_range.n + 1, date |-> t,
                year_starts |->
                    date_range.year_starts
                    (+) (IF r.is_year_start THEN SetToBag({r.year}) ELSE EmptyBag),
                year_ends |->
                    date_range.year_ends
                    (+) (IF r.is_year_end THEN SetToBag({r.year}) ELSE EmptyBag)]
        /\ UNCHANGED <<ingestVars, aggVars, aborted, merge_log>>

\* the row of dim_date of the date the series has reached
dim_date_row == DimRow(date_range.date)

\* create_date_dimension is invoked again: the table is replaced, the
\* series starts over
date_range_again ==
    /\ date_range.date = SeriesEnd
    /\ date_range' = NoSeries
    /\ UNCHANGED <<ingestVars, aggVars, aborted, merge_log>>

\* dim_date has a row with datekey k: k is CAST(STRFTIME(date, '%Y%m%d') AS
\* BIGINT) of a day of generate_series(DATE '2022-01-01', DATE '2040-12-31')
InDimDate(k) ==
    /\ k # Null.bigint
    /\ YearOf(k) \in DimFirstYear..DimLastYear
    /\ MonthOf(k) \in 1..12
    /\ DayOf(k) \in 1..DaysInMonth(YearOf(k), MonthOf(k))

\* the columns of the dim_date row of datekey k that the rollups group by
DimDateRow(k) ==
    [datekey |-> k, year |-> YearOf(k),
     quarter |-> ((MonthOf(k) - 1) \div 3) + 1, month |-> MonthOf(k)]

-----------------------------------------------------------------------------
(* create_aggregations *)

\* the page columns of a fact row that LEFT JOIN page_inventory leaves
\* without a match
NullPage ==
    [marketingpageid |-> Null.varchar, pagename |-> Null.varchar,
     websitename |-> Null.varchar, theme |-> Null.varchar,
     topic |-> Null.varchar, template |-> Null.varchar,
     contenttype |-> Null.varchar]

NullEmployee ==
    [contactid |-> Null.varchar, employeeregion |-> Null.varchar,
     employeebusinessdivision |-> Null.varchar]

\* ON f.marketingpageid = p.marketingpageid
PageMatches(f, P) ==
    {p \in DOMAIN P : f.marketingpageid # Null.varchar
                      /\ p.marketingpageid = f.marketingpageid}

\* ON f.viewingcontactid = e.contactid
EmployeeMatches(f, E) ==
    {e \in DOMAIN E : f.viewingcontactid # Null.varchar
                      /\ e.contactid = f.viewingcontactid}

\* FROM source.fact f JOIN source.dim_date d ON f.visitdatekey = d.datekey
\* LEFT JOIN source.page_inventory p ON ... [LEFT JOIN source.employee_contact
\* e ON ...]: the bag of joined rows; E is the empty bag for the rollups
\* that do not join employee_contact
JoinedRows(F, P, E) ==
    LET pagesOf(f) == IF PageMatches(f, P) = {} THEN {NullPage}
                      ELSE PageMatches(f, P)
        staffOf(f) == IF EmployeeMatches(f, E) = {} THEN {NullEmployee}
                      ELSE EmployeeMatches(f, E)
        dom == UNION {[f : {f}, p : pagesOf(f), e : staffOf(f)] :
                         f \in {g \in DOMAIN F : InDimDate(g.visitdatekey)}}
    IN  [j \in dom |->
            F[j.f]
            * (IF PageMatches(j.f, P) = {} THEN 1 ELSE P[j.p])
            * (IF EmployeeMatches(j.f, E) = {} THEN 1 ELSE E[j.e])]

RECURSIVE SumBag(_)
\* the sum of a bag of integers
SumBag(V) ==
    IF DOMAIN V = {} THEN 0
    ELSE LET x == CHOOSE y \in DOMAIN V : TRUE
         IN  x * V[x] + SumBag(Where(V, DOMAIN V \ {x}))

\* SUM(column): NULLs are skipped, the sum of no value is NULL
SqlSum(V) ==
    IF DOMAIN V \ {Null.bigint} = {} THEN Null.bigint
    ELSE SumBag(Where(V, DOMAIN V \ {Null.bigint}))

\* a + b
SqlAdd(a, b) == IF a = Null.bigint \/ b = Null.bigint THEN Null.bigint ELSE a + b

\* CASE WHEN f.marketingpageidliked IS NOT NULL AND f.marketingpageidliked != ''
\* THEN 1 ELSE 0 END
LikeFlag(f) ==
    IF f.marketingpageidliked # Null.varchar /\ f.marketingpageidliked # ""
    THEN 1 ELSE 0

COALESCE(x, d) == IF x = Null.varchar THEN d ELSE x

\* the aggregate columns every rollup computes over the joined rows G of a group
Metrics(G) ==
    LET likes == SumBag(BagOfAll(LAMBDA j : LikeFlag(j.f), G))
        comments == SqlSum(BagOfAll(LAMBDA j : j.f.comments, G))
    IN  [unique_visitors |->
             Cardinality({j.f.viewingcontactid : j \in DOMAIN G} \ {Null.varchar}),
         views |-> SqlSum(BagOfAll(LAMBDA j : j.f.views, G)),
         visits |-> SqlSum(BagOfAll(LAMBDA j : j.f.visits, G)),
         likes |-> likes,
         comments |-> comments,
         engagements |-> SqlAdd(likes, comments),
         durationsum |-> SqlSum(BagOfAll(LAMBDA j : j.f.durationsum, G)),
         row_count |-> BagCardinality(G)]

\* GROUP BY of fact_daily
DailyKey(j) ==
    [date |-> DimDateRow(j.f.visitdatekey),
     marketingpageid |-> j.f.marketingpageid, pagename |-> j.p.pagename,
     websitename |-> j.p.websitename, theme |-> j.p.theme, topic |-> j.p.topic,
     contenttype |-> j.p.contenttype, template |-> j.p.template]

\* GROUP BY of fact_daily_website
WebsiteKey(j) ==
    [date |-> DimDateRow(j.f.visitdatekey),
     websitename |-> COALESCE(j.p.websitename, "Unknown")]

\* GROUP BY of fact_monthly
MonthlyKey(j) ==
    [year |-> YearOf(j.f.visitdatekey),
     quarter |-> DimDateRow(j.f.visitdatekey).quarter,
     month |-> MonthOf(j.f.visitdatekey),
     marketingpageid |-> j.f.marketingpageid, pagename |-> j.p.pagename,
     websitename |-> j.p.websitename, theme |-> j.p.theme, topic |-> j.p.topic,
     contenttype |-> j.p.contenttype, template |-> j.p.template]

\* GROUP BY of fact_daily_employee
EmployeeKey(j) ==
    [date |-> DimDateRow(j.f.visitdatekey),
     websitename |-> COALESCE(j.p.websitename, "Unknown"),
     employeeregion |-> COALESCE(j.e.employeeregion, "Unknown"),
     employeebusinessdivision |->
         COALESCE(j.e.employeebusinessdivision, "Unknown")]

\* CREATE TABLE fact_daily AS SELECT ... GROUP BY ...: one row per group,
\* the key with the group's joined rows G (from which the columns follow)
fact_daily(F, P) ==
    LET J == JoinedRows(F, P, EmptyBag)
    IN  {[key |-> k, m |-> Metrics(Where(J, {j \in DOMAIN J : DailyKey(j) = k}))] :
            k \in {DailyKey(j) : j \in DOMAIN J}}

fact_daily_website(F, P) ==
    LET J == JoinedRows(F, P, EmptyBag)
    IN  {[key |-> k,
          m |-> Metrics(Where(J, {j \in DOMAIN J : WebsiteKey(j) = k}))
                @@ [pages_viewed |->
                       Cardinality({j.f.marketingpageid :
                                       j \in {i \in DOMAIN J : WebsiteKey(i) = k}}
                                   \ {Null.varchar})]] :
            k \in {WebsiteKey(j) : j \in DOMAIN J}}

fact_monthly(F, P) ==
    LET J == JoinedRows(F, P, EmptyBag)
    IN  {[key |-> k,
          m |-> Metrics(Where(J, {j \in DOMAIN J : MonthlyKey(j) = k}))
                @@ [days_in_period |->
                       Cardinality({j.f.visitdatekey :
                                       j \in {i \in DOMAIN J : MonthlyKey(i) = k}})]] :
            k \in {MonthlyKey(j) : j \in DOMAIN J}}

fact_daily_employee(F, P, E) ==
    LET J == JoinedRows(F, P, E)
    IN  {[key |-> k,
          m |-> Metrics(Where(J, {j \in DOMAIN J : EmployeeKey(j) = k}))
                @@ [pages_viewed |->
                       Cardinality({j.f.marketingpageid :
                                       j \in {i \in DOMAIN J : EmployeeKey(i) = k}}
                                   \ {Null.varchar})]] :
            k \in {EmployeeKey(j) : j \in DOMAIN J}}

\* a database without tables
NoTables == [t \in {} |-> {}]

\* os.remove(agg_db_path) when the file exists, then duckdb.connect: the run
\* works on a new database file, which has no tables
RemoveExistingKeepsTables(T) == T

RemoveExisting(T) == NoTables

\* the tables of a run that builds the employee rollup and the copy of
\* employee_contact whether or not the source has the table
AggregateTablesWithPlaceholder(has_employee) ==
    [fact_daily |-> fact_daily(fact, page_inventory),
     fact_daily_website |-> fact_daily_website(fact, page_inventory),
     fact_monthly |-> fact_monthly(fact, page_inventory),
     dim_date |-> "copy of source.dim_date",
     page_inventory |-> page_inventory,
     fact_daily_employee |->
         fact_daily_employee(fact, page_inventory, employee_contact),
     employee_contact |-> employee_contact]

\* the tables the run creates, in the order of the statements
AggregateTables(has_employee) ==
    [fact_daily |-> fact_daily(fact, page_inventory),
     fact_daily_website |-> fact_daily_website(fact, page_inventory),
     fact_monthly |-> fact_monthly(fact, page_inventory),
     dim_date |-> "copy of source.dim_date",
     page_inventory |-> page_inventory]
    @@ (IF has_employee
        THEN [fact_daily_employee |->
                  fact_daily_employee(fact, page_inventory, employee_contact),
              employee_contact |-> employee_contact]
        ELSE NoTables)

\* export_aggregations_to_parquet: one file per table of SHOW TABLES
AggParquetFiles(T) == DOMAIN T

\* create_aggregations(source_db_path, agg_db_path, export_parquet)
\* The source path is checked first; then the old aggregate file is removed
\* and a new one is created by connect; the first CREATE TABLE reads fact,
\* dim_date and page_inventory and fails when the source lacks one of them.
create_aggregations(ex) ==
    /\ pc = "idle"
    /\ IF ~dbFile
       THEN /\ agg_result' = "FileNotFoundError"
            /\ UNCHANGED <<aggFile, agg, agg_parquet>>
       ELSE IF ~({"fact", "dim_date", "page_inventory"} \subseteq tables)
       THEN /\ agg_result' = "CatalogException"
            /\ aggFile' = TRUE
            /\ agg' = RemoveExisting(agg)
            /\ UNCHANGED agg_parquet
       ELSE LET has_employee == "employee_contact" \in tables
            IN  /\ agg_result' = "ok"
                /\ aggFile' = TRUE
                /\ agg' = AggregateTables(has_employee) @@ RemoveExisting(agg)
                /\ agg_parquet' =
                       IF ex THEN agg_parquet \cup AggParquetFiles(agg')
                       ELSE agg_parquet
    /\ UNCHANGED <<ingestVars, employee_contact, historyVars>>

-----------------------------------------------------------------------------
(* Inputs *)

IngestDates == {Null.bigint, 20240114, 20240115, 20240116, 20240117}

\* fact CSV rows of the merge specification: one page, contact and referrer,
\* so the date is the key and views tells an old row from a new one
MergeFactRows ==
    {FactCsvRow(d, "app", "P1", 1, "c1", 0, Null.varchar) : d \in IngestDates}
    \cup {FactCsvRow(20240115, "app", "P1", 2, "c1", 0, Null.varchar)}

FactFiles == {Missing} \cup {File(b) : b \in BagsUpTo(MergeFactRows, MaxCsvRows)}

FewPageFiles == {Missing, File(SetToBag({PageCsvRow("P1", "A", "W")}))}

PageIds == {Null.varchar, "Unknown", "P1", "P2"}

MergePageRows ==
    {PageCsvRow(id, "A", "W") : id \in PageIds} \cup {PageCsvRow("P1", "B", "W")}

PageFiles == {Missing} \cup {File(b) : b \in BagsUpTo(MergePageRows, MaxCsvRows)}

FewFactFiles ==
    {Missing,
     File(SetToBag({FactCsvRow(20240115, "app", "P1", 1, "c1", 0, Null.varchar)}))}

Init ==
    /\ dbFile = FALSE
    /\ tables = {}
    /\ fact = EmptyBag
    /\ page_inventory = EmptyBag
    /\ temps = {}
    /\ fact_staging = EmptyBag
    /\ page_inventory_staging = EmptyBag
    /\ pc = "idle"
    /\ full_refresh = NoRun.full_refresh
    /\ export_parquet = NoRun.export_parquet
    /\ fact_csv = NoRun.fact_csv
    /\ inventory_csv = NoRun.inventory_csv
    /\ all_valid = NoRun.all_valid
    /\ parquet = {}
    /\ pre = NoRun.pre
    /\ employee_contact = EmptyBag
    /\ aggFile = FALSE
    /\ agg = NoTables
    /\ agg_result = "none"
    /\ agg_parquet = {}
    /\ aborted = NoAbort
    /\ merge_log = NotRecorded
    /\ date_range = NoSeries

\* runs over every fact CSV, with few page-inventory CSVs
StartFact ==
    /\ pc = "idle"
    /\ \E fcsv \in FactFiles, icsv \in FewPageFiles, fr \in BOOLEAN :
           ingest_data(fcsv, icsv, TRUE, fr)

Next == StartFact \/ Steps

Spec == Init /\ [][Next]_vars

\* fact rows of the aggregation specification: two pages, a date of the
\* calendar and one before it, and a marker that is NULL, empty or set
AggFactRows ==
    {SelectFact(FactCsvRow(d, "app", p, 1, "c1", x[1], x[2])) :
        d \in {20240115, 20211231}, p \in {"P1", "P2"},
        x \in {<<1, Null.varchar>>, <<2, "">>, <<3, "x">>}}
    \cup {SelectFact(FactCsvRow(20240116, "app", "P1", 1, "c1", 3, "x"))}

AggPageRows ==
    {SelectPage(PageCsvRow("P1", "A", "W")), SelectPage(PageCsvRow("P1", "B", "W")),
     SelectPage(PageCsvRow("P2", "A", "V"))}

EmployeeRows ==
    {[contactid |-> "c1", employeeregion |-> "EU",
      employeebusinessdivision |-> "D"]}

\* source databases handed to create_aggregations: none; one that a failed
\* first run left with table fact only; complete ones, with or without the
\* optional table employee_contact
AggSources ==
    {[dbFile |-> FALSE, tables |-> {}, fact |-> EmptyBag,
      page_inventory |-> EmptyBag, employee_contact |-> EmptyBag],
     [dbFile |-> TRUE, tables |-> {"fact"}, fact |-> EmptyBag,
      page_inventory |-> EmptyBag, employee_contact |-> EmptyBag]}
    \cup {[dbFile |-> TRUE, tables |-> {"fact", "page_inventory", "dim_date"},
           fact |-> F, page_inventory |-> P, employee_contact |-> EmptyBag] :
              F \in BagsUpTo(AggFactRows, MaxAggFactRows),
              P \in BagsUpTo(AggPageRows, MaxAggPageRows)}
    \cup {[dbFile |-> TRUE,
           tables |-> {"fact", "page_inventory", "dim_date", "employee_contact"},
           fact |-> F, page_inventory |-> P, employee_contact |-> E] :
              F \in BagsUpTo(AggFactRows, MaxAggFactRows),
              P \in BagsUpTo(AggPageRows, MaxAggPageRows),
              E \in BagsUpTo(EmployeeRows, MaxEmployeeRows)}

InitAgg ==
    /\ \E src \in AggSources :
           /\ dbFile = src.dbFile
           /\ tables = src.tables
           /\ fact = src.fact
           /\ page_inventory = src.page_inventory
           /\ employee_contact = src.employee_contact
    /\ temps = {}
    /\ fact_staging = EmptyBag
    /\ page_inventory_staging = EmptyBag
    /\ pc = "idle"
    /\ full_refresh = NoRun.full_refresh
    /\ export_parquet = NoRun.export_parquet
    /\ fact_csv = NoRun.fact_csv
    /\ inventory_csv = NoRun.inventory_csv
    /\ all_valid = NoRun.all_valid
    /\ parquet = {}
    /\ pre = NoRun.pre
    /\ aggFile \in BOOLEAN
    /\ agg = NoTables
    /\ agg_result = "none"
    /\ agg_parquet = {}
    /\ aborted = NoAbort
    /\ merge_log = NotRecorded
    /\ date_range = NoSeries

Aggregate == \E ex \in BOOLEAN : create_aggregations(ex)

NextAgg == Aggregate

\* create_aggregations over every source database of the bounds
SpecAgg == InitAgg /\ [][NextAgg]_vars

\* source databases of a sequence of aggregation runs
RebuildSources ==
    {[dbFile |-> FALSE, tables |-> {}, fact |-> EmptyBag,
      page_inventory |-> EmptyBag, employee_contact |-> EmptyBag],
     [dbFile |-> TRUE, tables |-> {"fact"}, fact |-> EmptyBag,
      page_inventory |-> EmptyBag, employee_contact |-> EmptyBag]}
    \cup {[dbFile |-> TRUE,
           tables |-> {"fact", "page_inventory", "dim_date"} \cup t,
           fact |-> F, page_inventory |-> P,
           employee_contact |-> IF t = {} THEN EmptyBag ELSE E] :
              t \in {{}, {"employee_contact"}},
              F \in BagsUpTo({SelectFact(FactCsvRow(20240115, "app", "P1", 1,
                                                    "c1", 3, "x")),
                              SelectFact(FactCsvRow(20240116, "app", "P2", 1,
                                                    "c1", 1, Null.varchar))},
                             MaxRebuildRows),
              P \in BagsUpTo({SelectPage(PageCsvRow("P1", "A", "W"))},
                             MaxRebuildRows),
              E \in BagsUpTo(EmployeeRows, MaxRebuildRows)}

\* between two aggregation runs the source database at source_db_path has
\* become another one (ingestion runs, the contact table supplied or
\* withdrawn); no aggregation run has read it yet
OpenSource ==
    /\ pc = "idle"
    /\ \E src \in RebuildSources :
           /\ dbFile' = src.dbFile
           /\ tables' = src.tables
           /\ fact' = src.fact
           /\ page_inventory' = src.page_inventory
           /\ employee_contact' = src.employee_contact
    /\ agg_result' = "none"
    /\ UNCHANGED <<aggFile, agg, agg_parquet>>
    /\ UNCHANGED <<temps, fact_staging, page_inventory_staging, pc,
                   full_refresh, export_parquet, fact_csv, inventory_csv,
                   all_valid, parquet, pre>>
    /\ KeepHistory

NextRebuild == OpenSource \/ Aggregate

\* aggregation runs over a source database that changes between the runs
SpecRebuild == Init /\ [][NextRebuild]_vars

\* runs over every page-inventory CSV, with few fact CSVs
StartPage ==
    /\ pc = "idle"
    /\ \E fcsv \in FewFactFiles, icsv \in PageFiles, ex \in BOOLEAN, fr \in BOOLEAN :
           ingest_data(fcsv, icsv, ex, fr)

NextPage == StartPage \/ Steps

SpecPage == Init /\ [][NextPage]_vars

\* CSV files of the runs that are interrupted and re-run
AbortFactFiles ==
    {File(SetToBag({FactCsvRow(20240115, "app", "P1", 1, "c1", 0, Null.varchar)})),
     File(SetToBag({FactCsvRow(20240114, "app", "P1", 1, "c1", 0, Null.varchar),
                    FactCsvRow(20240116, "app", "P1", 2, "c1", 0, Null.varchar)})),
     File(SetToBag({FactCsvRow(Null.bigint, "app", "P1", 1, "c1", 0, Null.varchar),
                    FactCsvRow(20240115, "app", "P1", 2, "c1", 0, Null.varchar)}))}

AbortPageFiles ==
    {File(SetToBag({PageCsvRow("P1", "A", "W")})),
     File(SetToBag({PageCsvRow("P1", "B", "W"), PageCsvRow("P2", "A", "V")}))}

StartAbort ==
    /\ pc = "idle"
    /\ \E fcsv \in AbortFactFiles, icsv \in AbortPageFiles, fr \in BOOLEAN :
           ingest_data(fcsv, icsv, TRUE, fr)

NextAbort == StartAbort \/ Steps \/ Abort

\* runs of which an incremental one may be interrupted at any statement
SpecAbort == Init /\ [][NextAbort]_vars

\* fact CSVs of a sequence of incremental runs: windows that overlap, that
\* lie inside one another and that leave a day without rows, and a CSV with
\* a row without date
CoverFiles ==
    {File(SetToBag({FactCsvRow(20240114, "app", "P1", 1, "c1", 0, Null.varchar),
                    FactCsvRow(20240116, "app", "P1", 1, "c1", 0, Null.varchar)})),
     File(SetToBag({FactCsvRow(20240115, "app", "P1", 2, "c1", 0, Null.varchar)})),
     File(SetToBag({FactCsvRow(20240116, "app", "P1", 2, "c1", 0, Null.varchar),
                    FactCsvRow(20240117, "app", "P1", 2, "c1", 0, Null.varchar)})),
     File(SetToBag({FactCsvRow(Null.bigint, "app", "P1", 1, "c1", 0, Null.varchar),
                    FactCsvRow(20240115, "app", "P1", 1, "c1", 0, Null.varchar)}))}

\* an empty database, the fact CSVs merged into it being logged
InitCover ==
    /\ dbFile = FALSE
    /\ tables = {}
    /\ fact = EmptyBag
    /\ page_inventory = EmptyBag
    /\ temps = {}
    /\ fact_staging = EmptyBag
    /\ page_inventory_staging = EmptyBag
    /\ pc = "idle"
    /\ full_refresh = NoRun.full_refresh
    /\ export_parquet = NoRun.export_parquet
    /\ fact_csv = NoRun.fact_csv
    /\ inventory_csv = NoRun.inventory_csv
    /\ all_valid = NoRun.all_valid
    /\ parquet = {}
    /\ pre = NoRun.pre
    /\ employee_contact = EmptyBag
    /\ aggFile = FALSE
    /\ agg = NoTables
    /\ agg_result = "none"
    /\ agg_parquet = {}
    /\ aborted = NoAbort
    /\ merge_log = [on |-> TRUE, csvs |-> <<>>]
    /\ date_range = NoSeries

StartCover ==
    /\ Len(merge_log.csvs) < MaxMerges
    /\ \E fcsv \in CoverFiles :
           ingest_data(fcsv, File(SetToBag({PageCsvRow("P1", "A", "W")})),
                       TRUE, FALSE)

\* the steps of an incremental run
IncrementalSteps ==
    \/ Return
    \/ FactCreate
    \/ FactStaging
    \/ FactDelete
    \/ FactInsert
    \/ FactDrop
    \/ InventoryCreate
    \/ InventoryStaging
    \/ InventoryDelete
    \/ InventoryInsert
    \/ InventoryDrop
    \/ create_date_dimension
    \/ Validate
    \/ export_to_parquet

NextCover == StartCover \/ IncrementalSteps

\* incremental runs only, from an empty fact table
SpecCover == InitCover /\ [][NextCover]_vars

\* base databases next to which the calendar is generated
DateSources ==
    {src \in RebuildSources :
        src.page_inventory = EmptyBag /\ src.employee_contact = EmptyBag}

InitDate ==
    /\ \E src \in DateSources :
           /\ dbFile = src.dbFile
           /\ tables = src.tables
           /\ fact = src.fact
           /\ page_inventory = src.page_inventory
           /\ employee_contact = src.employee_contact
    /\ temps = {}
    /\ fact_staging = EmptyBag
    /\ page_inventory_staging = EmptyBag
    /\ pc = "idle"
    /\ full_refresh = NoRun.full_refresh
    /\ export_parquet = NoRun.export_parquet
    /\ fact_csv = NoRun.fact_csv
    /\ inventory_csv = NoRun.inventory_csv
    /\ all_valid = NoRun.all_valid
    /\ parquet = {}
    /\ pre = NoRun.pre
    /\ aggFile = FALSE
    /\ agg = NoTables
    /\ agg_result = "none"
    /\ agg_parquet = {}
    /\ aborted = NoAbort
    /\ merge_log = NotRecorded
    /\ date_range = NoSeries

NextDate == date_range_row \/ date_range_again

\* the rows of dim_date, one after the other
SpecDate == InitDate /\ [][NextDate]_vars

\* CSV files for the validator: fact rows of one date for two pages and
\* inventory rows of one page, each file with or without repeated keys
ValidateFactFiles ==
    {File(b) : b \in BagsUpTo({FactCsvRow(20240115, "app", "P1", 1, "c1", 0,
                                          Null.varchar),
                               FactCsvRow(20240115, "app", "P2", 1, "c1", 0,
                                          Null.varchar),
                               FactCsvRow(20240115, "app", "P2", 2, "c1", 0,
                                          Null.varchar)}, MaxCsvRows)}

ValidatePageFiles ==
    {File(b) : b \in BagsUpTo({PageCsvRow("P1", "A", "W"),
                               PageCsvRow("P1", "B", "W")}, MaxCsvRows)}

StartValidate ==
    /\ pc = "idle"
    /\ \E fcsv \in ValidateFactFiles, icsv \in ValidatePageFiles, fr \in BOOLEAN :
           ingest_data(fcsv, icsv, TRUE, fr)

NextValidate == StartValidate \/ Steps

\* runs whose tables reach the validator with and without repeated keys
\* and orphans
SpecValidate == Init /\ [][NextValidate]_vars

-----------------------------------------------------------------------------
(* Properties of the merge *)

\* positions of an incremental run at which the fact merge is complete
FactMerged ==
    {"fact_drop", "inventory_create", "inventory_staging", "inventory_delete",
     "inventory_insert", "inventory_drop", "dim_date", "validate", "export",
     "done"}

\* positions of an incremental run at which the page merge is complete
PageMerged == {"inventory_drop", "dim_date", "validate", "export", "done"}

IncomingFact == ReadFactCsv(fact_csv)

IncomingPages == ReadPageCsv(inventory_csv)

\* C1: date-window replace. After an incremental fact merge with a CSV whose
\* dates span [min_date, max_date], every dated row outside the window is
\* held exactly as often as before the run, and every dated row inside the
\* window exactly as often as the CSV supplies it (old rows of the window,
\* re-supplied or not, are gone).
C1_DateWindowReplace ==
    (~full_refresh /\ pc \in FactMerged) =>
        LET lo == MinDate(IncomingFact)
            hi == MaxDate(IncomingFact)
        IN  \A r \in DOMAIN pre.fact \cup DOMAIN fact \cup DOMAIN IncomingFact :
                r.visitdatekey # Null.bigint =>
                    IF r.visitdatekey < lo \/ r.visitdatekey > hi
                    THEN CopiesIn(r, fact) = CopiesIn(r, pre.fact)
                    ELSE CopiesIn(r, fact) = CopiesIn(r, IncomingFact)

\* an incremental run has finished; the base held a row outside the window,
\* a row inside it that the CSV re-supplies with another value, and a row
\* inside it for a date the CSV does not supply
C1_Witness ==
    /\ pc = "done"
    /\ ~full_refresh
    /\ LET lo == MinDate(IncomingFact)
           hi == MaxDate(IncomingFact)
       IN  /\ \E r \in DOMAIN pre.fact :
                  r.visitdatekey # Null.bigint
                  /\ (r.visitdatekey < lo \/ r.visitdatekey > hi)
                  /\ r \in DOMAIN fact
           /\ \E r \in DOMAIN pre.fact :
                  /\ r.visitdatekey \in DateKeys(IncomingFact)
                  /\ r \notin DOMAIN IncomingFact
                  /\ r \notin DOMAIN fact
           /\ \E r \in DOMAIN pre.fact :
                  /\ r.visitdatekey # Null.bigint
                  /\ r.visitdatekey > lo /\ r.visitdatekey < hi
                  /\ r.visitdatekey \notin DateKeys(IncomingFact)
                  /\ r \notin DOMAIN fact

\* C2: dimension upsert. After an incremental page merge the table holds the
\* staging rows, and of the prior rows exactly those whose page_id staging
\* does not supply; the row count is the sum of the two.
C2_DimensionUpsert ==
    (~full_refresh /\ pc \in PageMerged) =>
        LET kept(r) == r.marketingpageid \notin PageIdsOf(IncomingPages)
        IN  /\ \A r \in DOMAIN pre.page_inventory \cup DOMAIN page_inventory
                        \cup DOMAIN IncomingPages :
                   CopiesIn(r, page_inventory) =
                       IF kept(r) THEN CopiesIn(r, pre.page_inventory)
                       ELSE CopiesIn(r, IncomingPages)
            /\ BagCardinality(page_inventory) =
                   CountWhere(pre.page_inventory,
                              {r \in DOMAIN pre.page_inventory : kept(r)})
                   + BagCardinality(IncomingPages)

\* base {P1 "A", P2}, CSV {P1 "B"}: P1 carries the new name only, P2 stays
C2_Witness ==
    /\ pc = "done"
    /\ ~full_refresh
    /\ \E old \in DOMAIN pre.page_inventory, new \in DOMAIN IncomingPages,
          other \in DOMAIN pre.page_inventory :
          /\ old.marketingpageid = new.marketingpageid
          /\ old.pagename # new.pagename
          /\ old \notin DOMAIN page_inventory
          /\ new \in DOMAIN page_inventory
          /\ other.marketingpageid \notin PageIdsOf(IncomingPages)
          /\ other \in DOMAIN page_inventory

\* C3: empty staging is fatal. An incremental run whose fact CSV yields no
\* row never gets past the DELETE (it ends failed) and leaves the rows of
\* fact as they were.
C3_EmptyStagingFatal ==
    (pc # "idle" /\ ~full_refresh /\ fact_csv.exists
        /\ IncomingFact = EmptyBag) =>
        /\ pc \in {"fact_create", "fact_staging", "fact_delete", "failed"}
        /\ fact = pre.fact

\* an incremental run over an empty CSV has failed on a non-empty base
C3_Witness ==
    /\ pc = "failed"
    /\ ~full_refresh
    /\ fact_csv.exists
    /\ IncomingFact = EmptyBag
    /\ pre.fact # EmptyBag
    /\ fact = pre.fact

\* C6: sentinel exclusion. page_inventory never holds a row whose page_id is
\* "Unknown".
C6_NoUnknownPage ==
    \A r \in DOMAIN page_inventory : r.marketingpageid # "Unknown"

\* an incremental run whose CSV carries an "Unknown" row next to another row
\* has finished
C6_Witness ==
    /\ pc = "done"
    /\ ~full_refresh
    /\ \E r \in DOMAIN inventory_csv.rows : r.marketingpageid = "Unknown"
    /\ page_inventory # EmptyBag

\* what a second incremental run over the same two CSV files makes of the
\* present tables (the statements of the merge, applied once more)
RerunFact ==
    DeleteOverlap(fact, PyFormat(MinDate(IncomingFact)),
                  PyFormat(MaxDate(IncomingFact))) (+) IncomingFact

RerunPages == DeleteResupplied(page_inventory, IncomingPages) (+) IncomingPages

\* C4: incremental re-run idempotence. When an incremental run has finished,
\* running it again with the same fact CSV and the same page-inventory CSV
\* leaves fact and page_inventory as they are, whatever the CSVs hold (rows
\* with a null visit_date_key included).
C4_RerunIdempotent ==
    (pc = "done" /\ ~full_refresh) =>
        /\ RerunFact = fact
        /\ RerunPages = page_inventory

UniquePageIds(P) ==
    \A r \in DOMAIN P :
        /\ P[r] = 1
        /\ \A q \in DOMAIN P : q.marketingpageid = r.marketingpageid => q = r

\* C5 as claimed: after any sequence of ingestion runs no two rows of
\* page_inventory share a page_id.
C5_PageIdUnique == pc \in {"done", "idle"} => UniquePageIds(page_inventory)

\* C5 as amended: a run whose page-inventory CSV (as loaded) has no repeated
\* page_id, and which is a full refresh or started from a page_inventory
\* without repeated page_id, ends with no two rows sharing a page_id.
C5_PageIdUniqueGivenUniqueCsv ==
    (/\ pc = "done"
     /\ UniquePageIds(IncomingPages)
     /\ full_refresh \/ UniquePageIds(pre.page_inventory)) =>
        UniquePageIds(page_inventory)

\* an incremental run has re-supplied a page the base already held, from a
\* CSV without repeated page_id
C5_Witness ==
    /\ pc = "done"
    /\ ~full_refresh
    /\ UniquePageIds(IncomingPages)
    /\ UniquePageIds(pre.page_inventory)
    /\ PageIdsOf(pre.page_inventory) \cap PageIdsOf(IncomingPages) # {}
    /\ BagCardinality(page_inventory) > 1

\* C7: full refresh replaces wholly. After a full-refresh run fact holds
\* exactly the rows of the fact CSV and page_inventory exactly the rows of
\* the inventory CSV whose key is not "Unknown", whatever they held before.
C7_FullRefreshReplaces ==
    (pc = "done" /\ full_refresh) =>
        LET parsed == BagOfAll(SelectPage, inventory_csv.rows)
        IN  /\ fact = BagOfAll(SelectFact, fact_csv.rows)
            /\ page_inventory =
                   Where(parsed, {r \in DOMAIN parsed :
                                     r.marketingpageid # "Unknown"})

\* C9: validation observes and does not block. The validation step changes
\* no table, and whatever it returns the run goes on to the export (when
\* export is enabled, otherwise straight to its end), and the export step
\* ends the run successfully.
C9_ValidationDoesNotBlock ==
    [][/\ pc = "validate" =>
            /\ tables' = tables
            /\ fact' = fact
            /\ page_inventory' = page_inventory
            /\ all_valid' \in BOOLEAN
            /\ pc' = IF export_parquet THEN "export" ELSE "done"
       /\ pc = "export" => pc' = "done" /\ ParquetFiles \subseteq parquet'
      ]_vars

\* a run with export enabled has finished although the validator returned
\* false
C9_Witness ==
    /\ pc = "done"
    /\ all_valid = FALSE
    /\ export_parquet
    /\ ParquetFiles \subseteq parquet

\* C8: a missing input aborts before any mutation. When a run has failed
\* and its fact CSV or its page-inventory CSV is absent, the base database
\* holds the tables and rows it held when the run started. (The aggregation
\* half of the claim is the first branch of create_aggregations, which
\* leaves the aggregate database and its Parquet files as they are.)
C8_MissingInputNoMutation ==
    (pc = "failed" /\ (~fact_csv.exists \/ ~inventory_csv.exists)) =>
        /\ tables = pre.tables
        /\ fact = pre.fact
        /\ page_inventory = pre.page_inventory

-----------------------------------------------------------------------------
(* Properties of the rollups *)

\* the rows of fact that map to the group of key k, J being the joined rows
\* of the rollup and keys the key of each joined row
FactRowsOfGroup(J, keys, k) ==
    Where(fact, {f \in DOMAIN fact :
                    \E j \in DOMAIN J : j.f = f /\ keys[j] = k})

\* the group's rows with a marker that is neither NULL nor empty
MarkedRows(G) ==
    CountWhere(G, {f \in DOMAIN G : f.marketingpageidliked # Null.varchar
                                    /\ f.marketingpageidliked # ""})

LikesAsClaimed(T, J, keys) ==
    \A g \in T :
        LET G == FactRowsOfGroup(J, keys, g.key)
        IN  /\ g.m.likes = MarkedRows(G)
            /\ g.m.engagements =
                   MarkedRows(G) + SumBag(BagOfAll(LAMBDA f : f.comments, G))

\* C10: like/engagement derivation. In every row of each of the four
\* rollups, likes is the number of fact rows of the group whose marker is
\* neither NULL nor empty, and engagements is likes plus the sum of the
\* comments of the group's fact rows.
C10_LikesAndEngagements ==
    agg_result = "ok" =>
        LET J == JoinedRows(fact, page_inventory, EmptyBag)
            JE == JoinedRows(fact, page_inventory, employee_contact)
        IN  /\ LikesAsClaimed(agg.fact_daily, J, [j \in DOMAIN J |-> DailyKey(j)])
            /\ LikesAsClaimed(agg.fact_daily_website, J,
                              [j \in DOMAIN J |-> WebsiteKey(j)])
            /\ LikesAsClaimed(agg.fact_monthly, J,
                              [j \in DOMAIN J |-> MonthlyKey(j)])
            /\ "fact_daily_employee" \in DOMAIN agg =>
                   LikesAsClaimed(agg.fact_daily_employee, JE,
                                  [j \in DOMAIN JE |-> EmployeeKey(j)])

\* C10 where no page_id and no contactid is repeated (kept as a check of the
\* rollup arithmetic; the claim itself is not restricted this way)
C10_HoldsWithoutRepeatedKeys ==
    (/\ UniquePageIds(page_inventory)
     /\ \A e \in DOMAIN employee_contact : employee_contact[e] = 1) =>
        C10_LikesAndEngagements

RowCountAsClaimed(T, J, keys) ==
    \A g \in T : g.m.row_count = BagCardinality(FactRowsOfGroup(J, keys, g.key))

\* C11: row_count conservation. In every row of each rollup, row_count is
\* the number of rows of fact that map to the row's group, and the
\* row_counts of fact_daily add up to the number of rows of fact, whatever
\* the base tables hold.
C11_RowCountConservation ==
    agg_result = "ok" =>
        LET J == JoinedRows(fact, page_inventory, EmptyBag)
            JE == JoinedRows(fact, page_inventory, employee_contact)
        IN  /\ RowCountAsClaimed(agg.fact_daily, J,
                                 [j \in DOMAIN J |-> DailyKey(j)])
            /\ RowCountAsClaimed(agg.fact_daily_website, J,
                                 [j \in DOMAIN J |-> WebsiteKey(j)])
            /\ RowCountAsClaimed(agg.fact_monthly, J,
                                 [j \in DOMAIN J |-> MonthlyKey(j)])
            /\ "fact_daily_employee" \in DOMAIN agg =>
                   RowCountAsClaimed(agg.fact_daily_employee, JE,
                                     [j \in DOMAIN JE |-> EmployeeKey(j)])
            /\ SumBag(BagOfAll(LAMBDA g : g.m.row_count,
                               SetToBag(agg.fact_daily)))
                   = BagCardinality(fact)

\* C11 for base tables in which every fact row has a row of dim_date and no
\* page_id and no contactid is repeated
C11_HoldsWithCalendarDatesAndUniqueKeys ==
    (/\ \A f \in DOMAIN fact : InDimDate(f.visitdatekey)
     /\ UniquePageIds(page_inventory)
     /\ \A e \in DOMAIN employee_contact : employee_contact[e] = 1) =>
        C11_RowCountConservation

\* the columns of a fact_daily row that come from page_inventory are NULL
NullAttributes(k) ==
    /\ k.pagename = Null.varchar
    /\ k.websitename = Null.varchar
    /\ k.theme = Null.varchar
    /\ k.topic = Null.varchar
    /\ k.contenttype = Null.varchar
    /\ k.template = Null.varchar

\* the fact_daily rows of f's date and page_id whose page columns are NULL
OrphanRowsFor(f) ==
    {g \in agg.fact_daily : /\ g.key.date.datekey = f.visitdatekey
                            /\ g.key.marketingpageid = f.marketingpageid
                            /\ NullAttributes(g.key)}

Orphans == {f \in DOMAIN fact : PageMatches(f, page_inventory) = {}}

\* C12: orphan tolerance. Every fact row whose page_id has no row of
\* page_inventory is counted in a fact_daily row of its date and page_id,
\* and that row's page columns are NULL; none is dropped.
C12_OrphansKept ==
    agg_result = "ok" =>
        \A f \in Orphans :
            \E g \in OrphanRowsFor(f) : g.m.row_count >= fact[f]

\* C12 for the orphans whose date has a row of dim_date
C12_HoldsInsideCalendar ==
    agg_result = "ok" =>
        \A f \in {o \in Orphans : InDimDate(o.visitdatekey)} :
            \E g \in OrphanRowsFor(f) : g.m.row_count >= fact[f]

-----------------------------------------------------------------------------
(* Properties of the aggregate database *)

RollupTables == {"fact_daily", "fact_daily_website", "fact_monthly"}

EmployeeTables == {"fact_daily_employee", "employee_contact"}

\* the source database has the tables every rollup reads
CompleteSource == dbFile /\ {"fact", "dim_date", "page_inventory"} \subseteq tables

C14_RebuiltFromCurrentBase ==
    /\ agg_result = "ok" =>
           /\ DOMAIN agg = RollupTables \cup {"dim_date", "page_inventory"}
                  \cup (IF "employee_contact" \in tables THEN EmployeeTables
                        ELSE {})
           /\ agg.fact_daily = fact_daily(fact, page_inventory)
           /\ agg.fact_daily_website = fact_daily_website(fact, page_inventory)
           /\ agg.fact_monthly = fact_monthly(fact, page_inventory)
           /\ agg.page_inventory = page_inventory
           /\ "employee_contact" \in tables =>
                  /\ agg.fact_daily_employee =
                         fact_daily_employee(fact, page_inventory,
                                             employee_contact)
                  /\ agg.employee_contact = employee_contact
    /\ agg_result = "CatalogException" => agg = NoTables

\* a run without the contact table after a run that built (and exported)
\* the employee rollup
C14_Witness ==
    /\ agg_result = "ok"
    /\ "employee_contact" \notin tables
    /\ "fact_daily_employee" \in agg_parquet
    /\ agg.fact_daily # {}

-----------------------------------------------------------------------------
(* Properties of the validator *)

\* no four-part tuple occurs in more than one row of F
UniqueFactKeys(F) ==
    \A r \in DOMAIN F :
        /\ F[r] = 1
        /\ \A q \in DOMAIN F :
               (/\ q.visitdatekey = r.visitdatekey
                /\ q.marketingpageid = r.marketingpageid
                /\ q.viewingcontactid = r.viewingcontactid
                /\ q.referrerapplicationid = r.referrerapplicationid) => q = r

Validated == pc \in {"export", "done"}

\* C16: validator verdict. validate_primary_keys returns true exactly when
\* no page_id is in more than one row of page_inventory and no four-part key
\* is in more than one row of fact, whether or not fact holds orphaned rows.
C16_ValidatorVerdict ==
    Validated =>
        (all_valid <=> (UniquePageIds(page_inventory) /\ UniqueFactKeys(fact)))

\* the validator returned true for tables with an orphaned fact row
C16_Witness ==
    /\ Validated
    /\ all_valid
    /\ \E f \in DOMAIN fact : PageMatches(f, page_inventory) = {}
    /\ page_inventory # EmptyBag

\* the verdict is false for repeated fact keys alone and for repeated
\* page_ids alone
C16_SeenFactDupes ==
    Validated /\ ~all_valid /\ UniquePageIds(page_inventory)

C16_SeenPageDupes ==
    Validated /\ ~all_valid /\ UniqueFactKeys(fact)

-----------------------------------------------------------------------------
(* Properties of sequences of merges *)

\* C18: fact key uniqueness is preserved by the incremental merge. When
\* fact had no two rows with the same four-part key at the start of an
\* incremental run and the fact CSV has no two such rows either, fact has
\* no two rows with the same four-part key once the merge is complete.
C18_FactKeysStayUnique ==
    (/\ ~full_refresh
     /\ pc \in FactMerged
     /\ UniqueFactKeys(pre.fact)
     /\ UniqueFactKeys(IncomingFact)) => UniqueFactKeys(fact)

\* C18 for a fact CSV in which every row has a visit_date_key
C18_HoldsForDatedCsv ==
    (\A r \in DOMAIN IncomingFact : r.visitdatekey # Null.bigint) =>
        C18_FactKeysStayUnique

\* what one uninterrupted incremental run over the two CSV files makes of
\* the base tables the interrupted run started from
UninterruptedFact ==
    DeleteOverlap(aborted.pre.fact, PyFormat(MinDate(IncomingFact)),
                  PyFormat(MaxDate(IncomingFact))) (+) IncomingFact

UninterruptedPages ==
    DeleteResupplied(aborted.pre.page_inventory, IncomingPages) (+) IncomingPages

\* C17: abort-and-re-run recovery. When an incremental run was interrupted
\* between two statements and the run is started again with the same CSV
\* files and completes, fact and page_inventory are what a single
\* uninterrupted run makes of the base tables the interrupted run found.
C17_RerunRecovers ==
    (pc = "done" /\ aborted.interrupted) =>
        /\ fact = UninterruptedFact
        /\ page_inventory = UninterruptedPages

\* C17 for a fact CSV in which every row has a visit_date_key
C17_HoldsForDatedCsv ==
    (\A r \in DOMAIN IncomingFact : r.visitdatekey # Null.bigint) =>
        C17_RerunRecovers

\* a re-run has completed after an interruption between the window delete
\* and the insert that had taken rows out of fact
C17_SeenRecovery ==
    /\ pc = "done"
    /\ aborted.interrupted
    /\ fact = UninterruptedFact
    /\ BagCardinality(aborted.pre.fact) > 1

\* the merges, by their place in the log, whose CSV has a date at or before
\* d and a date at or after d: those whose [min_date, max_date] contains d
CoveringMerges(d) ==
    {i \in 1..Len(merge_log.csvs) :
        LET dates == {r.visitdatekey : r \in DOMAIN merge_log.csvs[i]}
                         \ {Null.bigint}
        IN  \E lo \in dates, hi \in dates : lo <= d /\ d <= hi}

LastOf(S) == CHOOSE i \in S : \A j \in S : j <= i

RowsFor(B, d) == Where(B, {r \in DOMAIN B : r.visitdatekey = d})

\* the dates of the fact table and of the CSVs
SeenDates ==
    ({r.visitdatekey : r \in DOMAIN fact} \cup IngestDates) \ {Null.bigint}

\* C19: last covering window wins. After any sequence of incremental fact
\* merges from an empty fact table, the fact rows of every date d are the
\* rows for d of the most recent CSV whose window contained d, and there
\* are none for a date that no window contained.
C19_LastCoveringWindowWins ==
    (merge_log.on /\ pc # "fact_insert") =>
        \A d \in SeenDates :
            RowsFor(fact, d) =
                IF CoveringMerges(d) = {} THEN EmptyBag
                ELSE RowsFor(merge_log.csvs[LastOf(CoveringMerges(d))], d)

\* after three merges fact holds rows of a CSV that is not the last one, a
\* day that lost its rows to a later window, and a day of two windows
C19_Witness ==
    /\ merge_log.on
    /\ pc = "done"
    /\ Len(merge_log.csvs) = MaxMerges
    /\ \E d \in SeenDates :
           /\ CoveringMerges(d) # {}
           /\ LastOf(CoveringMerges(d)) < Len(merge_log.csvs)
           /\ RowsFor(fact, d) # EmptyBag
    /\ \E d \in SeenDates :
           /\ Cardinality(CoveringMerges(d)) > 1
           /\ RowsFor(fact, d) = EmptyBag
    /\ \E d \in SeenDates :
           /\ Cardinality(CoveringMerges(d)) > 1
           /\ RowsFor(fact, d) # EmptyBag

-----------------------------------------------------------------------------
(* Properties of the date dimension *)

\* the days from 2022-01-01 to 2040-12-31: 365 a year and one more in
\* every leap year
DaysOfSpan ==
    365 * (DimLastYear - DimFirstYear + 1)
    + Cardinality({y \in DimFirstYear..DimLastYear : IsLeapYear(y)})

\* the ISO weekday of the n-th day of the span; 2022-01-01 is a Saturday
WeekdayOfDay(n) == ((n + 4) % 7) + 1

\* the n-th row of dim_date is the row of the n-th day of the span
RowAsClaimed ==
    LET r == dim_date_row
        n == date_range.n
    IN  n > 0 =>
            /\ n <= DaysOfSpan
            /\ InDimDate(r.datekey)
            /\ YearOf(r.datekey) = r.date.y
            /\ MonthOf(r.datekey) = r.date.m
            /\ DayOf(r.datekey) = r.date.d
            /\ EpochDays(r.date) = EpochDays(SeriesStart) + n - 1
            /\ r.date = SeriesEnd <=> n = DaysOfSpan
            /\ r.is_weekend <=> WeekdayOfDay(n) \in {6, 7}
            /\ \A y \in DimFirstYear..DimLastYear :
                   /\ CopiesIn(y, date_range.year_starts)
                          = (IF y <= r.date.y THEN 1 ELSE 0)
                   /\ CopiesIn(y, date_range.year_ends)
                          = (IF y < r.date.y \/ (y = r.date.y /\ r.is_year_end)
                             THEN 1 ELSE 0)

\* C15: date dimension completeness. create_date_dimension makes one row
\* for each calendar day from 2022-01-01 to 2040-12-31, each with its own
\* YYYYMMDD date_key; is_weekend is true exactly on ISO weekdays 6 and 7;
\* each year has one is_year_start row and one is_year_end row; the rows are
\* the same whatever the other tables hold and on every invocation.
C15_DateDimensionComplete ==
    /\ []RowAsClaimed
    /\ [][date_range'.n = date_range.n + 1 =>
              DimRow(date_range'.date).datekey > dim_date_row.datekey]_vars

\* the last row of a calendar generated next to a fact table with rows
C15_Witness ==
    /\ date_range.date = SeriesEnd
    /\ date_range.n = DaysOfSpan
    /\ dim_date_row.datekey = 20401231
    /\ ~dim_date_row.is_weekend
    /\ dim_date_row.is_year_end
    /\ fact # EmptyBag

=============================================================================
